---- MODULE Spec2Model ----
(***************************************************************************)
(* Publication pipeline of the Social Media Publisher.                     *)
(*                                                                         *)
(* In-process driver: app/main.py (registry task_store, submission,        *)
(* background processing) over app/orchestrator/workflow.py (the LangGraph *)
(* nodes generate -> format -> publish -> finalize).                       *)
(* Distributed driver: app/orchestrator/celery_workflow.py.                *)
(* Draft stores: app/agents/publishers/*.py and the draft endpoints of     *)
(* app/main.py.                                                            *)
(*                                                                         *)
(* Texts are modelled by their origin and their length, the only things    *)
(* the pipeline's control flow reads.  A dict is a sequence of key/value   *)
(* pairs in insertion order.  A key "twitter_post" is the pair of its two  *)
(* tokens; no enum value contains "_", so split('_') returns the tokens.   *)
(***************************************************************************)
EXTENDS Integers, Sequences, FiniteSets, TLC

\* ------------------------------------------------------------------------
\* Bounds of the model
\* ------------------------------------------------------------------------
MaxTargets == 2

\* Request ids (uuid4 strings in the code).  Spec runs the pipeline of one
\* request; the registry and the workflow state are keyed by id throughout.
ReqIds == {"r1", "r2"}

SoloIds == {"r1"}

\* Workflows of the distributed driver (uuid4 task ids in the code).
MaxWorkflows == 2

WorkflowIds == 1..MaxWorkflows

\* ------------------------------------------------------------------------
\* app/models/base.py, app/models/accounts.py, app/models/content.py
\* ------------------------------------------------------------------------
PlatformType == {"twitter", "facebook", "linkedin", "instagram"}

ContentType == {"post", "story", "carousel"}

TaskStatus == {"pending", "processing", "completed", "failed"}

SiteWeb == {"stuffgaming.fr", "gaming.com", "football.com"}

\* create_default_accounts: one active account per site for instagram,
\* twitter and facebook; none for linkedin.
account_mapping ==
  { [site_web |-> s, platform |-> p, is_active |-> TRUE] :
      s \in SiteWeb, p \in {"instagram", "twitter", "facebook"} }

get_account(site_web, platform) ==
  { a \in account_mapping : a.site_web = site_web /\ a.platform = platform }

\* An account check that accepts every target, which the code does not have.
validate_account_exists_any(site_web, platform) == "ok"

\* A validation that does not read is_active, which the code does not have.
validate_account_ignores_active(mapping, site_web, platform) ==
  IF \E a \in mapping : a.site_web = site_web /\ a.platform = platform
  THEN "ok" ELSE "missing"

\* The body of validate_account_exists over a mapping: "ok" when the account
\* is returned, otherwise the AccountValidationError that is raised.
validate_account(mapping, site_web, platform) ==
  LET account == { a \in mapping : a.site_web = site_web /\ a.platform = platform }
  IN IF account = {} THEN "missing"
     ELSE IF \E a \in account : ~a.is_active THEN "inactive"
     ELSE "ok"

\* validate_account_exists reads the global account_mapping.
validate_account_exists(site_web, platform) ==
  validate_account(account_mapping, site_web, platform)

\* The target configurations submitted in this model (PlatformContentConfig:
\* platform, content_type, published).
Configs ==
  { [platform |-> "twitter",   content_type |-> "post",  published |-> TRUE],
    [platform |-> "twitter",   content_type |-> "post",  published |-> FALSE],
    [platform |-> "facebook",  content_type |-> "post",  published |-> TRUE],
    [platform |-> "facebook",  content_type |-> "post",  published |-> FALSE],
    [platform |-> "linkedin",  content_type |-> "post",  published |-> TRUE],
    [platform |-> "instagram", content_type |-> "post",  published |-> TRUE],
    [platform |-> "instagram", content_type |-> "story", published |-> TRUE] }

RequestSites == {"stuffgaming.fr"}

\* The mappings add_account can build for one site: at most one account per
\* platform (the key is site_platform), active or not.
AccountMappings ==
  { m \in SUBSET [site_web : RequestSites, platform : PlatformType,
                  is_active : BOOLEAN] :
      \A a, b \in m : a.platform = b.platform => a = b }

\* nb_slides of a carousel target: Optional[int] without bounds (0 stands
\* for None, which "nb_slides or k" treats alike).
NbSlides == {-1, 0, 1, 2, 3, 10, 11}

\* Number of image urls supplied with a carousel target (0: images_urls is
\* None or empty, which "not images_urls" treats alike).
SuppliedImages == {0, 2}

CarouselConfigs ==
  { [platform |-> "instagram", content_type |-> "carousel", published |-> TRUE,
     nb_slides |-> n, images_urls |-> k] : n \in NbSlides, k \in SuppliedImages }

\* Requests with one carousel target.
CarouselRequests ==
  [site_web : RequestSites, platforms_config : { << c >> : c \in CarouselConfigs }]

ConfigLists == UNION { [1..n -> Configs] : n \in 0..MaxTargets }

\* EnhancedPublicationRequest: no validator, any list of configurations is
\* accepted, duplicates and the empty list included.
EnhancedPublicationRequest ==
  [site_web : RequestSites, platforms_config : ConfigLists]

NoRequest == [site_web |-> "none", platforms_config |-> << >>]

\* ------------------------------------------------------------------------
\* Dicts in insertion order
\* ------------------------------------------------------------------------
DictKeys(d) == { d[i].key : i \in 1..Len(d) }

\* d[k] = v: an existing key keeps its position and takes the new value.
DictSet(d, k, v) ==
  IF k \in DictKeys(d)
  THEN [i \in 1..Len(d) |-> IF d[i].key = k THEN [key |-> k, val |-> v] ELSE d[i]]
  ELSE Append(d, [key |-> k, val |-> v])

Min(a, b) == IF a <= b THEN a ELSE b

Max(a, b) == IF a >= b THEN a ELSE b

\* ------------------------------------------------------------------------
\* app/services/llm_service.py
\* ------------------------------------------------------------------------
\* What one call of the language model does: it raises (ok = FALSE) or
\* returns a text whose stripped length is len.
LLMLens == {0, 40, 2001}

LLMResponses ==
  {[ok |-> FALSE, len |-> 0]} \cup {[ok |-> TRUE, len |-> n] : n \in LLMLens}

\* Shortest prompt _generate_content_node builds (empty source, no target).
PromptTemplateLen == 205

\* LLMService.generate_content: never raises.
generate_content(llm, resp, promptLen) ==
  IF ~llm
  THEN [src |-> "placeholder", len |-> 22 + Min(promptLen, 100) + 3]
  ELSE IF ~resp.ok
  THEN [src |-> "fallback", len |-> 25 + Min(promptLen, 200) + 3]
  ELSE [src |-> "llm", len |-> resp.len]

\* LLMService.format_content_for_platform: every (platform, content_type)
\* formatted by workflow.py has a system prompt, so the call is
\* generate_content(content, system_prompt).
format_content_for_platform(llm, resp, content) ==
  generate_content(llm, resp, content.len)

NoText == [src |-> "none", len |-> 0]

\* What the model answers to the carousel prompt.  slides is the number of
\* slides of the JSON object it returns, 0 when the answer is not a JSON
\* object with "slides" and "legende".
SlideCounts == {0, 1, 3, 12}

CarouselResponses ==
  {[ok |-> FALSE, len |-> 0, slides |-> 0]}
    \cup {[ok |-> TRUE, len |-> 40, slides |-> m] : m \in SlideCounts}

\* ------------------------------------------------------------------------
\* State
\* ------------------------------------------------------------------------
VARIABLES
  llm_enabled,        \* llm_service.llm is not None
  task_store,         \* main.task_store: request_id -> PublicationResult
  request,            \* the request handed to the background task
  pc,                 \* position of process_publication_request
  wf,                 \* WorkflowState of the request's workflow
  local,              \* the running node's local dict and loop index
  twitter_api_calls,  \* POST https://api.twitter.com/2/tweets
  format_calls,       \* targets handed to a _format_* method
  celery_store,       \* CeleryContentPublisherOrchestrator.task_store
  units,              \* state of the three chained Celery tasks of a workflow
  revoked,            \* workflows whose celery_task_id was revoked
  retry_of,           \* for a workflow created by retry_workflow: the original
  broker,             \* task messages received by the workers, with their runs
  twitter_drafts_store,    \* publishers/twitter.py: draft_id -> draft
  instagram_drafts_store,  \* publishers/instagram.py: draft_id -> draft
  issued,             \* draft ids generated so far
  facebook_posts,     \* POST graph.facebook.com/{draft_id} is_published, by id
  promote_log         \* the answers of publish_draft, in order

inproc_vars ==
  << llm_enabled, task_store, request, pc, wf, local, twitter_api_calls,
     format_calls >>

celery_vars == << celery_store, units, revoked, retry_of, broker >>

draft_vars ==
  << twitter_drafts_store, instagram_drafts_store, issued, facebook_posts,
     promote_log >>

vars == << inproc_vars, celery_vars, draft_vars >>

outside_inproc == << celery_vars, draft_vars >>

outside_celery == << inproc_vars, draft_vars >>

\* execute_workflow: initial_state
initial_state(req) ==
  [ content_generated |-> NoText,
    formatted_content |-> << >>,
    publication_results |-> << >>,
    errors |-> << >>,
    current_step |-> "initialized" ]

NoLocal == [dict |-> << >>, idx |-> 0]

\* Draft ids.  prefix is what the endpoints test with startswith:
\* "twitter_draft_", "instagram_draft_", "facebook_", or none of them.
MaxDrafts == 1

TwitterIds == [prefix : {"twitter_draft"}, n : 1..MaxDrafts]

InstagramIds == [prefix : {"instagram_draft"}, n : 1..MaxDrafts]

FacebookIds == [prefix : {"facebook"}, n : 1..MaxDrafts]

DraftIds ==
  TwitterIds \cup InstagramIds \cup FacebookIds \cup [prefix : {"other"}, n : {1}]

\* Longest record of publish_draft answers kept by the model.
MaxPromotes == 2

\* The chain generation -> formatting -> publishing before it is sent.
NoUnits ==
  [generation |-> "unsent", formatting |-> "unsent", publishing |-> "unsent"]

Init ==
  /\ llm_enabled \in BOOLEAN
  /\ task_store = << >>
  /\ request = [r \in ReqIds |-> NoRequest]
  /\ pc = [r \in ReqIds |-> "none"]
  /\ wf = [r \in ReqIds |-> initial_state(NoRequest)]
  /\ local = [r \in ReqIds |-> NoLocal]
  /\ twitter_api_calls = {}
  /\ format_calls = {}
  /\ celery_store = << >>
  /\ units = [w \in WorkflowIds |-> NoUnits]
  /\ revoked = {}
  /\ retry_of = [w \in WorkflowIds |-> 0]
  /\ broker = << >>
  /\ twitter_drafts_store = << >>
  /\ instagram_drafts_store = << >>
  /\ issued = {}
  /\ facebook_posts = [d \in FacebookIds |-> 0]
  /\ promote_log = << >>

\* ------------------------------------------------------------------------
\* app/orchestrator/workflow.py: formatting
\* ------------------------------------------------------------------------
\* An entry of state["errors"]: the message names the stage that failed and,
\* for a target, the configuration it was raised for (0: the whole request).
workflow_error(kind, cfg) == [kind |-> kind, cfg |-> cfg]

\* config_key = f"{config.platform.value}_{config.content_type.value}"
config_key(config) == << config.platform, config.content_type >>

\* config.nb_slides or k
nb_slides_or(nb_slides, k) == IF nb_slides = 0 THEN k ELSE nb_slides

\* len(lst[:n]) for a list of m items
slice_len(m, n) == IF n >= 0 THEN Min(m, n) ELSE Max(m + n, 0)

\* InstagramCarouselOutput.validate_slides_count: TRUE when it accepts.
validate_slides_count(count) == count >= 2 /\ count <= 10

\* Images that are synthesized for every carousel, supplied or not, which
\* the code does not do.
carousel_images_always_generated(images_urls, nb_slides) ==
  [count |-> Max(nb_slides_or(nb_slides, 5), 0), images_generated |-> TRUE]

\* _format_instagram_carousel, the images: the supplied urls, or
\* generate_images(nb_slides or 5, ...), one url per item of range(n).
carousel_images(images_urls, nb_slides) ==
  IF images_urls = 0
  THEN [count |-> Max(nb_slides_or(nb_slides, 5), 0), images_generated |-> TRUE]
  ELSE [count |-> images_urls, images_generated |-> FALSE]

\* The except branch of _format_instagram_carousel: range(nb_slides or 3)
\* slides; ok = FALSE when InstagramCarouselOutput raises there.
carousel_fallback(nb_slides) ==
  LET count == Max(nb_slides_or(nb_slides, 3), 0)
  IN [ok |-> validate_slides_count(count), slides |-> count, fallback |-> TRUE]

\* _format_instagram_carousel: parsed is the number of slides in the JSON
\* answer (0: json.loads or the lookup of the keys raises).  Whatever raises
\* in the try block, the validator included, leads to the fallback.
format_instagram_carousel(parsed, nb_slides) ==
  LET count == slice_len(parsed, nb_slides_or(nb_slides, 5))
  IN IF parsed > 0 /\ validate_slides_count(count)
     THEN [ok |-> TRUE, slides |-> count, fallback |-> FALSE]
     ELSE carousel_fallback(nb_slides)

\* Formatters that store the text as the model returned it, without the
\* validator of the tweet and without the cut of the story, which the code
\* does not have.
format_payload_unchecked(llm, resp, content, config, cfg) ==
  LET text == format_content_for_platform(llm, resp, content) IN
  CASE config.platform = "twitter" ->
         [ok |-> TRUE,
          val |-> [model |-> "TwitterPostOutput", len |-> text.len, src |-> text.src,
                   cfg |-> cfg]]
    [] config.platform = "instagram" /\ config.content_type = "story" ->
         [ok |-> TRUE,
          val |-> [model |-> "InstagramStoryOutput", len |-> text.len, src |-> text.src,
                   cfg |-> cfg]]
    [] OTHER ->
         [ok |-> TRUE,
          val |-> [model |-> "Output", len |-> text.len, src |-> text.src,
                   cfg |-> cfg]]

\* The _format_* methods and the validators of app/models/platforms.py.
\* ok = FALSE when building the output model raises.  cfg is the index of
\* the configuration the payload was built from, src where its text comes
\* from: every method takes it from format_content_for_platform.
format_payload(llm, resp, content, config, cfg) ==
  LET text == format_content_for_platform(llm, resp, content) IN
  CASE config.platform = "twitter" ->
         [ok |-> text.len <= 280,
          val |-> [model |-> "TwitterPostOutput", len |-> text.len, src |-> text.src,
                   cfg |-> cfg]]
    [] config.platform = "facebook" ->
         [ok |-> TRUE,
          val |-> [model |-> "FacebookPostOutput", len |-> text.len, src |-> text.src,
                   cfg |-> cfg]]
    [] config.platform = "linkedin" ->
         [ok |-> TRUE,
          val |-> [model |-> "LinkedInPostOutput", len |-> text.len, src |-> text.src,
                   cfg |-> cfg]]
    [] config.platform = "instagram" /\ config.content_type = "post" ->
         [ok |-> text.len <= 2000,
          val |-> [model |-> "InstagramPostOutput", len |-> text.len, src |-> text.src,
                   cfg |-> cfg]]
    [] config.platform = "instagram" /\ config.content_type = "story" ->
         [ok |-> TRUE,
          val |-> [model |-> "InstagramStoryOutput", len |-> Min(text.len, 50),
                   src |-> text.src, cfg |-> cfg]]
    [] config.platform = "instagram" /\ config.content_type = "carousel" ->
         LET c == format_instagram_carousel(
                    IF text.src = "llm" THEN resp.slides ELSE 0, config.nb_slides)
         IN [ok |-> c.ok,
             val |-> [model |-> "InstagramCarouselOutput", len |-> c.slides,
                      src |-> text.src, cfg |-> cfg, fallback |-> c.fallback,
                      images |-> carousel_images(config.images_urls,
                                                 config.nb_slides)]]

\* ------------------------------------------------------------------------
\* app/orchestrator/workflow.py: publication
\* ------------------------------------------------------------------------
\* What _publish_to_twitter meets: the credentials lookup raises before any
\* call, or the tweet is posted and the API answers 201 or something else.
TwitterOutcomes == {"credentials_error", "created", "api_error"}

\* _publish_to_twitter: always returns a result, never raises.  post_id is
\* the kind of id in the result: the id Twitter gave to the tweet, or none.
publish_to_twitter(outcome) ==
  IF outcome = "created"
  THEN [status |-> "success", error |-> "none", post_id |-> "tweet_id"]
  ELSE [status |-> "failed", error |-> outcome, post_id |-> "none"]

\* _simulate_publication: a real tweet for the key twitter_post, a fake
\* success for every other key.  The published flag of the target is not
\* read.  The id of a fake success is f"fake_id_{uuid4().hex[:8]}".
simulate_publication(platform, outcome) ==
  IF platform = << "twitter", "post" >>
  THEN publish_to_twitter(outcome)
  ELSE [status |-> "success", error |-> "none", post_id |-> "fake_id"]

\* An all-or-nothing finalisation, which the code does not have: the request
\* fails as soon as one publication failed.
finalize_step_all_or_nothing(state) ==
  IF \/ Len(state.errors) > 0
     \/ state.publication_results = << >>
     \/ \E j \in 1..Len(state.publication_results) :
           state.publication_results[j].val.status = "failed"
  THEN "failed"
  ELSE "completed"

\* _finalize_results_node
finalize_step(state) ==
  IF Len(state.errors) > 0 \/ state.publication_results = << >>
  THEN "failed"
  ELSE "completed"

\* ------------------------------------------------------------------------
\* app/main.py: registry and background processing
\* ------------------------------------------------------------------------
\* TaskResult built from one item of publication_results.
TaskResult(request_id, item) ==
  [ task_id |-> << request_id, item.key[1] >>,
    status |-> IF item.val.status = "success" THEN "completed" ELSE "failed",
    platform |-> item.key[1],
    content_type |-> item.key[2],
    error |-> item.val.error,
    post_id |-> item.val.post_id ]

\* _process_publication: registers the request as pending under a fresh
\* request_id (uuid4) and queues the background task.
Register(r, req) ==
  /\ r \notin DOMAIN task_store
  /\ task_store' = task_store @@
       (r :> [status |-> "pending", platforms_results |-> << >>,
              completed_at |-> FALSE])
  /\ request' = [request EXCEPT ![r] = req]
  /\ pc' = [pc EXCEPT ![r] = "queued"]
  /\ UNCHANGED << llm_enabled, wf, local, twitter_api_calls,
                  format_calls >>

\* publish_content_advanced: a request submitted by a client.
Submit(r, req) ==
  /\ Register(r, req)
  /\ UNCHANGED outside_inproc

\* A start of processing that leaves the registry entry pending, which the
\* code does not have.
Begin_keeps_pending(r) ==
  /\ pc[r] = "queued"
  /\ wf' = [wf EXCEPT ![r] = initial_state(request[r])]
  /\ pc' = [pc EXCEPT ![r] = "generate"]
  /\ UNCHANGED << llm_enabled, task_store, request, local, twitter_api_calls,
                  format_calls >>
  /\ UNCHANGED outside_inproc

\* process_publication_request up to the first suspension: status
\* PROCESSING, execute_workflow builds initial_state, the generation node
\* awaits the language model.
Begin(r) ==
  /\ pc[r] = "queued"
  /\ task_store' = [task_store EXCEPT ![r].status = "processing"]
  /\ wf' = [wf EXCEPT ![r] = initial_state(request[r])]
  /\ pc' = [pc EXCEPT ![r] = "generate"]
  /\ UNCHANGED << llm_enabled, request, local, twitter_api_calls,
                  format_calls >>
  /\ UNCHANGED outside_inproc

\* _generate_content_node: the model call returns; generate_content never
\* raises, so the except branch of the node is not taken.
GenerateContentNode(r, resp) ==
  /\ pc[r] = "generate"
  /\ wf' = [wf EXCEPT
       ![r].content_generated = generate_content(llm_enabled, resp, PromptTemplateLen),
       ![r].current_step = "content_generated"]
  /\ pc' = [pc EXCEPT ![r] = "format"]
  /\ local' = [local EXCEPT ![r] = [dict |-> << >>, idx |-> 1]]
  /\ UNCHANGED << llm_enabled, task_store, request, twitter_api_calls,
                  format_calls >>
  /\ UNCHANGED outside_inproc

\* _format_content_node, no content generated: early return.
FormatNoContent(r) ==
  /\ pc[r] = "format"
  /\ wf[r].content_generated.len = 0
  /\ wf' = [wf EXCEPT ![r].errors = Append(@, workflow_error("no_content", 0))]
  /\ pc' = [pc EXCEPT ![r] = "publish"]
  /\ local' = [local EXCEPT ![r] = [dict |-> << >>, idx |-> 1]]
  /\ UNCHANGED << llm_enabled, task_store, request, twitter_api_calls,
                  format_calls >>
  /\ UNCHANGED outside_inproc

\* _format_content_node, one iteration of the loop over platforms_config.
FormatTarget(r, resp) ==
  /\ pc[r] = "format"
  /\ wf[r].content_generated.len > 0
  /\ local[r].idx <= Len(request[r].platforms_config)
  /\ LET i == local[r].idx
         config == request[r].platforms_config[i]
         account == validate_account_exists(request[r].site_web, config.platform)
         f == format_payload(llm_enabled, resp, wf[r].content_generated, config, i)
     IN IF account # "ok"
        THEN /\ wf' = [wf EXCEPT ![r].errors = Append(@, workflow_error("account", i))]
             /\ local' = [local EXCEPT ![r].idx = i + 1]
        ELSE IF ~f.ok
        THEN /\ wf' = [wf EXCEPT ![r].errors = Append(@, workflow_error("format", i))]
             /\ local' = [local EXCEPT ![r].idx = i + 1]
        ELSE /\ wf' = wf
             /\ local' = [local EXCEPT
                  ![r] = [dict |-> DictSet(local[r].dict, config_key(config), f.val),
                          idx |-> i + 1]]
  /\ format_calls' =
       IF validate_account_exists(request[r].site_web,
            request[r].platforms_config[local[r].idx].platform) = "ok"
       THEN format_calls \cup {[request_id |-> r, cfg |-> local[r].idx]}
       ELSE format_calls
  /\ UNCHANGED << llm_enabled, task_store, request, pc, twitter_api_calls >>
  /\ UNCHANGED outside_inproc

\* A formatting node that may return before its loop is over, which the code
\* does not have.
FormatNodeExit_early(r) ==
  /\ pc[r] = "format"
  /\ wf[r].content_generated.len > 0
  /\ wf' = [wf EXCEPT ![r].formatted_content = local[r].dict,
                      ![r].current_step = "content_formatted"]
  /\ pc' = [pc EXCEPT ![r] = "publish"]
  /\ local' = [local EXCEPT ![r] = [dict |-> << >>, idx |-> 1]]
  /\ UNCHANGED << llm_enabled, task_store, request, twitter_api_calls,
                  format_calls >>
  /\ UNCHANGED outside_inproc

\* _format_content_node, after the loop.
FormatNodeExit(r) ==
  /\ pc[r] = "format"
  /\ wf[r].content_generated.len > 0
  /\ local[r].idx > Len(request[r].platforms_config)
  /\ wf' = [wf EXCEPT ![r].formatted_content = local[r].dict,
                      ![r].current_step = "content_formatted"]
  /\ pc' = [pc EXCEPT ![r] = "publish"]
  /\ local' = [local EXCEPT ![r] = [dict |-> << >>, idx |-> 1]]
  /\ UNCHANGED << llm_enabled, task_store, request, twitter_api_calls,
                  format_calls >>
  /\ UNCHANGED outside_inproc

\* A publish loop that drops the target whose publication failed, which the
\* code does not have.
PublishTarget_drops_failure(r, outcome) ==
  /\ pc[r] = "publish"
  /\ local[r].idx <= Len(wf[r].formatted_content)
  /\ LET i == local[r].idx
         item == wf[r].formatted_content[i]
         result == simulate_publication(item.key, outcome)
     IN /\ local' = [local EXCEPT
             ![r] = [dict |-> IF result.status = "failed" THEN local[r].dict
                              ELSE DictSet(local[r].dict, item.key, result),
                     idx |-> i + 1]]
        /\ twitter_api_calls' =
             IF item.key = << "twitter", "post" >> /\ outcome # "credentials_error"
             THEN twitter_api_calls \cup {[request_id |-> r, cfg |-> item.val.cfg]}
             ELSE twitter_api_calls
  /\ UNCHANGED << llm_enabled, task_store, request, pc, wf, format_calls >>
  /\ UNCHANGED outside_inproc

\* _publish_content_node, one iteration of the loop over formatted_content.
\* _simulate_publication never raises, so the except branch is not taken.
PublishTarget(r, outcome) ==
  /\ pc[r] = "publish"
  /\ local[r].idx <= Len(wf[r].formatted_content)
  /\ LET i == local[r].idx
         item == wf[r].formatted_content[i]
         result == simulate_publication(item.key, outcome)
     IN /\ local' = [local EXCEPT
             ![r] = [dict |-> DictSet(local[r].dict, item.key, result),
                     idx |-> i + 1]]
        /\ twitter_api_calls' =
             IF item.key = << "twitter", "post" >> /\ outcome # "credentials_error"
             THEN twitter_api_calls \cup {[request_id |-> r, cfg |-> item.val.cfg]}
             ELSE twitter_api_calls
  /\ UNCHANGED << llm_enabled, task_store, request, pc, wf, format_calls >>
  /\ UNCHANGED outside_inproc

\* _publish_content_node, after the loop.
PublishNodeExit(r) ==
  /\ pc[r] = "publish"
  /\ local[r].idx > Len(wf[r].formatted_content)
  /\ wf' = [wf EXCEPT ![r].publication_results = local[r].dict,
                      ![r].current_step = "content_published"]
  /\ pc' = [pc EXCEPT ![r] = "finalize"]
  /\ local' = [local EXCEPT ![r] = NoLocal]
  /\ UNCHANGED << llm_enabled, task_store, request, twitter_api_calls,
                  format_calls >>
  /\ UNCHANGED outside_inproc

\* _finalize_results_node
FinalizeResultsNode(r) ==
  /\ pc[r] = "finalize"
  /\ wf' = [wf EXCEPT ![r].current_step = finalize_step(wf[r])]
  /\ pc' = [pc EXCEPT ![r] = "returned"]
  /\ UNCHANGED << llm_enabled, task_store, request, local, twitter_api_calls,
                  format_calls >>
  /\ UNCHANGED outside_inproc

\* A result handler that ignores the workflow's final step, which the code
\* does not have.
publication_result_ignores_step(entry, r, workflow_result) ==
  [entry EXCEPT
     !.status = "completed",
     !.platforms_results =
        [i \in 1..Len(workflow_result.publication_results) |->
           TaskResult(r, workflow_result.publication_results[i])],
     !.completed_at = TRUE]

\* A result handler that yields to the event loop right after writing the
\* status, before the outcome list and completed_at, which the code does not
\* have.
publication_result_status_only(entry, r, workflow_result) ==
  IF workflow_result.current_step = "completed"
  THEN [entry EXCEPT !.status = "completed"]
  ELSE [entry EXCEPT !.status = "failed"]

\* A result handler that records only a completed workflow and leaves the
\* entry as it finds it otherwise, which the code does not have.
publication_result_completed_only(entry, r, workflow_result) ==
  IF workflow_result.current_step = "completed"
  THEN [entry EXCEPT
          !.status = "completed",
          !.platforms_results =
             [i \in 1..Len(workflow_result.publication_results) |->
                TaskResult(r, workflow_result.publication_results[i])],
          !.completed_at = TRUE]
  ELSE entry

\* The registry entry process_publication_request leaves, from the entry it
\* finds and the workflow result.
publication_result(entry, r, workflow_result) ==
  IF workflow_result.current_step = "completed"
  THEN [entry EXCEPT
          !.status = "completed",
          !.platforms_results =
             [i \in 1..Len(workflow_result.publication_results) |->
                TaskResult(r, workflow_result.publication_results[i])],
          !.completed_at = TRUE]
  ELSE [entry EXCEPT !.status = "failed", !.completed_at = TRUE]

\* A result handler that writes its result into every entry of the registry,
\* which the code does not have.
ProcessResult_any(r) ==
  /\ pc[r] = "returned"
  /\ task_store' = [x \in DOMAIN task_store |->
                      publication_result(task_store[x], x, wf[r])]
  /\ pc' = [pc EXCEPT ![r] = "done"]
  /\ UNCHANGED << llm_enabled, request, wf, local, twitter_api_calls,
                  format_calls >>
  /\ UNCHANGED outside_inproc

\* process_publication_request after execute_workflow returned.
ProcessResult(r) ==
  /\ pc[r] = "returned"
  /\ task_store' = [task_store EXCEPT ![r] = publication_result(@, r, wf[r])]
  /\ pc' = [pc EXCEPT ![r] = "done"]
  /\ UNCHANGED << llm_enabled, request, wf, local, twitter_api_calls,
                  format_calls >>
  /\ UNCHANGED outside_inproc

\* get_publication_status: reads the entry, writes nothing.
GetPublicationStatus(r) ==
  /\ r \in DOMAIN task_store
  /\ UNCHANGED vars

\* ------------------------------------------------------------------------
\* app/orchestrator/celery_workflow.py and the Celery chain
\* ------------------------------------------------------------------------
\* The requests submitted to the distributed driver in this model: one
\* Twitter target, published or draft.
CeleryRequests ==
  { req \in EnhancedPublicationRequest :
      /\ Len(req.platforms_config) = 1
      /\ \A i \in 1..Len(req.platforms_config) :
            req.platforms_config[i].platform = "twitter" }

\* request.dict() and EnhancedPublicationRequest.parse_obj
request_dict(req) ==
  [site_web |-> req.site_web, platforms_config |-> req.platforms_config,
   repr |-> "dict"]

parse_obj(data) ==
  [site_web |-> data.site_web, platforms_config |-> data.platforms_config]

\* The entry execute_workflow_async leaves in the store.  sent = FALSE when
\* building or sending the chain raises: the entry, created pending, is
\* marked failed and keeps no celery_task_id.
workflow_entry(req, sent) ==
  [ status |-> IF sent THEN "processing" ELSE "failed",
    request |-> request_dict(req),
    celery_task_id |-> sent,
    results |-> "none",
    error |-> IF sent THEN "none" ELSE "submission",
    completed_at |-> 0 ]

\* execute_workflow_async: the entry is stored under a fresh task_id and the
\* chain is sent, its first task queued.
StartWorkflow(w, req, sent) ==
  /\ w \notin DOMAIN celery_store
  /\ celery_store' = celery_store @@ (w :> workflow_entry(req, sent))
  /\ units' = [units EXCEPT ![w].generation = IF sent THEN "queued" ELSE @]
  /\ UNCHANGED << revoked, broker >>
  /\ UNCHANGED outside_celery

\* execute_workflow_async called for a new request.
ExecuteWorkflowAsync(w, req, sent) ==
  /\ StartWorkflow(w, req, sent)
  /\ UNCHANGED retry_of

\* datetime.now() as read by two status queries made one after the other
\* (0: completed_at is not set).
QueryTimes == {1, 2}

\* The states of a Celery result that the status query distinguishes.
AsyncResultStates == {"PENDING", "SUCCESS", "FAILURE", "REVOKED"}

\* AsyncResult(celery_task_id): apply_async of a chain returns the result of
\* its last task, the publishing unit.
AsyncResultState(w) ==
  IF units[w].publishing \in {"unsent", "queued"} THEN "PENDING"
  ELSE units[w].publishing

Ready(state) == state \in {"SUCCESS", "FAILURE", "REVOKED"}

\* A worker whose generation unit queues the formatting and the publishing
\* units together, which a Celery chain does not do.
RunUnit_eager(w, ok) ==
  /\ \E u \in DOMAIN units[w] : units[w][u] = "queued"
  /\ units' =
       CASE units[w].generation = "queued" ->
              [units EXCEPT ![w].generation = IF ok THEN "SUCCESS" ELSE "FAILURE",
                            ![w].formatting = IF ok THEN "queued" ELSE @,
                            ![w].publishing = IF ok THEN "queued" ELSE @]
         [] units[w].formatting = "queued" ->
              [units EXCEPT ![w].formatting = "FAILURE"]
         [] units[w].publishing = "queued" ->
              [units EXCEPT ![w].publishing =
                 IF w \in revoked THEN "REVOKED" ELSE "FAILURE"]
  /\ UNCHANGED << celery_store, revoked, retry_of, broker >>
  /\ UNCHANGED outside_celery

\* A worker runs the queued unit of a workflow.  Celery passes the result of
\* a unit as the first argument of the next one:
\*  - generate_base_content_task(request_data) succeeds, or fails when the
\*    worker does (ok = FALSE); where Celery checks the arguments of a task
\*    when it is sent (Task.typing), sending the formatting unit raises
\*    inside the generation unit, which is the case ok = FALSE as well;
\*  - format_multiplatform_task then receives four arguments for its three
\*    parameters and fails before its body runs; the chain stops there;
\*  - publish_multiplatform_task would receive the formatting result as
\*    site_web and the site name as formatted_contents, whose .items()
\*    raises; a revoked task is discarded instead.
RunUnit(w, ok) ==
  /\ \E u \in DOMAIN units[w] : units[w][u] = "queued"
  /\ units' =
       CASE units[w].generation = "queued" ->
              [units EXCEPT ![w].generation = IF ok THEN "SUCCESS" ELSE "FAILURE",
                            ![w].formatting = IF ok THEN "queued" ELSE @]
         [] units[w].formatting = "queued" ->
              [units EXCEPT ![w].formatting = "FAILURE"]
         [] units[w].publishing = "queued" ->
              [units EXCEPT ![w].publishing =
                 IF w \in revoked THEN "REVOKED" ELSE "FAILURE"]
  /\ UNCHANGED << celery_store, revoked, retry_of, broker >>
  /\ UNCHANGED outside_celery

\* A status query without the test status == 'processing', which the code
\* does not have.
workflow_status_unguarded(task_info, state, backend, now) ==
  IF task_info.celery_task_id
  THEN IF ~backend
       THEN [task_info EXCEPT !.status = "failed", !.error = "status_check"]
       ELSE IF Ready(state)
       THEN IF state = "SUCCESS"
            THEN [task_info EXCEPT !.status = "completed", !.results = "chain_result",
                                   !.completed_at = now]
            ELSE [task_info EXCEPT !.status = "failed", !.error = "chain",
                                   !.completed_at = now]
       ELSE task_info
  ELSE task_info

\* get_workflow_status: the entry it leaves, which is also the snapshot it
\* returns.  backend = FALSE when reading the result backend raises; now is
\* datetime.now().
workflow_status(task_info, state, backend, now) ==
  IF task_info.celery_task_id /\ task_info.status = "processing"
  THEN IF ~backend
       THEN [task_info EXCEPT !.status = "failed", !.error = "status_check"]
       ELSE IF Ready(state)
       THEN IF state = "SUCCESS"
            THEN [task_info EXCEPT !.status = "completed", !.results = "chain_result",
                                   !.completed_at = now]
            ELSE [task_info EXCEPT !.status = "failed", !.error = "chain",
                                   !.completed_at = now]
       ELSE task_info
  ELSE task_info

GetWorkflowStatus(w, backend, now) ==
  /\ w \in DOMAIN celery_store
  /\ celery_store' = [celery_store EXCEPT
       ![w] = workflow_status(@, AsyncResultState(w), backend, now)]
  /\ UNCHANGED << units, revoked, retry_of, broker >>
  /\ UNCHANGED outside_celery

\* cancel_workflow: control = FALSE when revoke raises (returns False).
cancel_entry(task_info, control) ==
  IF task_info.celery_task_id /\ control
  THEN [task_info EXCEPT !.status = "cancelled"]
  ELSE task_info

CancelWorkflow(w, control) ==
  /\ w \in DOMAIN celery_store
  /\ celery_store' = [celery_store EXCEPT ![w] = cancel_entry(@, control)]
  /\ revoked' = IF celery_store[w].celery_task_id /\ control
                THEN revoked \cup {w} ELSE revoked
  /\ UNCHANGED << units, retry_of, broker >>
  /\ UNCHANGED outside_celery

\* A retry test that accepts every status, which the code does not have.
CanRetry_any(task_info) == TRUE

\* retry_workflow: raises unless the status is failed or cancelled.
CanRetry(task_info) == task_info.status \in {"failed", "cancelled"}

\* retry_workflow: a new workflow from the stored request, or ValueError for
\* an unknown id or another status, before anything is written.
RetryWorkflow(w, new, sent) ==
  IF w \in DOMAIN celery_store /\ CanRetry(celery_store[w])
  THEN /\ StartWorkflow(new, parse_obj(celery_store[w].request), sent)
       /\ retry_of' = [retry_of EXCEPT ![new] = w]
  ELSE UNCHANGED vars

\* ------------------------------------------------------------------------
\* app/services/tasks: the Celery tasks as handlers of the messages a worker
\* receives.  task_acks_late = True: a message is acknowledged after its
\* handler ran, so a worker lost in between makes the broker deliver it
\* again.
\* ------------------------------------------------------------------------
\* Messages sent by a client of the broker in this model.
MaxMessages == 2

\* Deliveries of one message.
MaxDeliveries == 2

ClientTasks ==
  {"generate_base_content", "format_multiplatform", "publish_multiplatform",
   "publish_to_platform"}

\* A task message: the targets in its arguments, the message whose handler
\* sent it (0: a client), the times its handler ran and the publications
\* these runs made.
unit_message(task, site_web, targets, parent) ==
  [ task |-> task, site_web |-> site_web, targets |-> targets,
    parent |-> parent, runs |-> 0, effects |-> 0 ]

\* A client sends a task with well-formed arguments.
SendUnit(task, req) ==
  /\ Cardinality({i \in 1..Len(broker) : broker[i].parent = 0}) < MaxMessages
  /\ task = "publish_to_platform" => Len(req.platforms_config) = 1
  /\ broker' = Append(broker,
       unit_message(task, req.site_web, req.platforms_config, 0))
  /\ UNCHANGED << celery_store, units, revoked, retry_of >>
  /\ UNCHANGED outside_celery

\* format_multiplatform_task: format_for_platform_task.delay for every
\* configuration.
format_multiplatform_units(i) ==
  [k \in 1..Len(broker[i].targets) |->
     unit_message("format_for_platform", broker[i].site_web,
                  << broker[i].targets[k] >>, i)]

\* What a per-platform publishing task meets: get_platform_credentials
\* raises, or the publication is made.
PublishTaskOutcomes == {"credentials_error", "published"}

\* A worker runs the handler of message i.
\*  - format_multiplatform_task submits one formatting unit per target;
\*  - publish_multiplatform_task reads content_data.__dict__ of values that
\*    came through the json serializer, which raises for each target: the
\*    target is reported failed and no publishing unit is submitted;
\*  - publish_to_twitter_task, publish_to_facebook_task and
\*    publish_to_instagram_task publish once per run;
\*  - generate_base_content_task and format_for_platform_task submit nothing.
DeliverUnit(i, outcome) ==
  /\ i \in 1..Len(broker)
  /\ broker[i].runs < MaxDeliveries
  /\ broker' =
       [broker EXCEPT
          ![i].runs = @ + 1,
          ![i].effects =
             IF broker[i].task = "publish_to_platform" /\ outcome = "published"
             THEN @ + 1 ELSE @]
       \o (IF broker[i].task = "format_multiplatform"
           THEN format_multiplatform_units(i) ELSE << >>)
  /\ UNCHANGED << celery_store, units, revoked, retry_of >>
  /\ UNCHANGED outside_celery

\* ------------------------------------------------------------------------
\* Drafts: app/agents/publishers/*.py and the draft endpoints of app/main.py
\* ------------------------------------------------------------------------
DraftContentTypes == {"post", "story"}

DraftLens == {40}

DictRemove(store, k) == [x \in (DOMAIN store) \ {k} |-> store[x]]

\* TwitterPublisher.publish_content(published=False): _create_draft_simulation
\* stores the tweet under a new id; no call to Twitter.
CreateTwitterDraft(d, site_web, len) ==
  /\ d \in TwitterIds \ issued
  /\ twitter_drafts_store' = twitter_drafts_store @@
       (d :> [site_web |-> site_web, content_type |-> "post", len |-> len])
  /\ issued' = issued \cup {d}
  /\ UNCHANGED << instagram_drafts_store, facebook_posts, promote_log >>
  /\ UNCHANGED << inproc_vars, celery_vars >>

\* InstagramPublisher.publish_content(published=False)
CreateInstagramDraft(d, site_web, content_type, len) ==
  /\ d \in InstagramIds \ issued
  /\ instagram_drafts_store' = instagram_drafts_store @@
       (d :> [site_web |-> site_web, content_type |-> content_type, len |-> len])
  /\ issued' = issued \cup {d}
  /\ UNCHANGED << twitter_drafts_store, facebook_posts, promote_log >>
  /\ UNCHANGED << inproc_vars, celery_vars >>

\* What the Graph API call of FacebookPublisher.publish_draft or delete_draft
\* meets: the credentials lookup raises before the call, or the call is made
\* and answers 200 or an error.
FacebookOutcomes == {"credentials_error", "ok", "api_error"}

\* The request publish_draft rebuilds from a stored draft.
draft_request(platform, draft) ==
  [ site_web |-> draft.site_web,
    platforms_config |->
      << [platform |-> platform, content_type |-> draft.content_type,
          published |-> TRUE] >> ]

\* The store publish_draft and delete_draft look the id up in.
draft_platform(d) ==
  CASE d.prefix = "instagram_draft" -> "instagram"
    [] d.prefix = "twitter_draft" -> "twitter"
    [] d.prefix = "facebook" -> "facebook"
    [] OTHER -> "none"

draft_store(d) ==
  CASE d.prefix = "instagram_draft" -> instagram_drafts_store
    [] d.prefix = "twitter_draft" -> twitter_drafts_store
    [] OTHER -> << >>

\* The answer publish_draft gives for a Facebook id.
facebook_answer(d, outcome) ==
  [ draft_id |-> d,
    status |-> IF outcome = "ok" THEN "published" ELSE "failed",
    sent |-> outcome # "credentials_error" ]

\* publish_draft (POST /publish/draft/{draft_id}).  The handler does not
\* suspend between the lookup and the deletion of the draft.
PublishDraft(d, r, outcome) ==
  /\ Len(promote_log) < MaxPromotes
  /\ IF draft_platform(d) = "facebook"
     THEN /\ facebook_posts' =
               [facebook_posts EXCEPT ![d] =
                  IF outcome = "credentials_error" THEN @ ELSE @ + 1]
          /\ promote_log' = Append(promote_log, facebook_answer(d, outcome))
          /\ UNCHANGED << twitter_drafts_store, instagram_drafts_store, issued >>
          /\ UNCHANGED inproc_vars
     ELSE IF d \notin DOMAIN draft_store(d)
     THEN /\ promote_log' = Append(promote_log,
               [draft_id |-> d, status |-> "not_found", sent |-> FALSE])
          /\ UNCHANGED << twitter_drafts_store, instagram_drafts_store, issued,
                          facebook_posts >>
          /\ UNCHANGED inproc_vars
     ELSE /\ Register(r, draft_request(draft_platform(d), draft_store(d)[d]))
          /\ twitter_drafts_store' =
               IF draft_platform(d) = "twitter"
               THEN DictRemove(twitter_drafts_store, d) ELSE twitter_drafts_store
          /\ instagram_drafts_store' =
               IF draft_platform(d) = "instagram"
               THEN DictRemove(instagram_drafts_store, d) ELSE instagram_drafts_store
          /\ promote_log' = Append(promote_log,
               [draft_id |-> d, status |-> "published", sent |-> TRUE])
          /\ UNCHANGED << issued, facebook_posts >>
  /\ UNCHANGED celery_vars

\* A deletion that reports success for an id it does not hold, which the
\* code does not have.
delete_twitter_draft_always(store, d) ==
  [success |-> TRUE, store |-> DictRemove(store, d)]

\* delete_twitter_draft: the value returned and the store it leaves.
delete_twitter_draft(store, d) ==
  IF d \in DOMAIN store
  THEN [success |-> TRUE, store |-> DictRemove(store, d)]
  ELSE [success |-> FALSE, store |-> store]

\* delete_instagram_draft
delete_instagram_draft(store, d) ==
  IF d \in DOMAIN store
  THEN [success |-> TRUE, store |-> DictRemove(store, d)]
  ELSE [success |-> FALSE, store |-> store]

\* The answer of delete_draft: "deleted", or 404 when success is false.  For
\* a Facebook id success is the answer of the Graph API.
delete_draft_answer(d, outcome) ==
  LET success ==
        CASE draft_platform(d) = "instagram" ->
               delete_instagram_draft(instagram_drafts_store, d).success
          [] draft_platform(d) = "twitter" ->
               delete_twitter_draft(twitter_drafts_store, d).success
          [] draft_platform(d) = "facebook" -> outcome = "ok"
          [] OTHER -> FALSE
  IN IF success THEN "deleted" ELSE "not_found"

\* delete_draft (DELETE /drafts/{draft_id}): delete_twitter_draft,
\* delete_instagram_draft; for a Facebook id the handler only calls the
\* Graph API and no state of the program changes.
DeleteDraft(d) ==
  /\ twitter_drafts_store' =
       IF draft_platform(d) = "twitter"
       THEN delete_twitter_draft(twitter_drafts_store, d).store
       ELSE twitter_drafts_store
  /\ instagram_drafts_store' =
       IF draft_platform(d) = "instagram"
       THEN delete_instagram_draft(instagram_drafts_store, d).store
       ELSE instagram_drafts_store
  /\ UNCHANGED << issued, facebook_posts, promote_log >>
  /\ UNCHANGED << inproc_vars, celery_vars >>

Pipeline(r) ==
  \/ Begin(r)
  \/ \E resp \in LLMResponses : GenerateContentNode(r, resp)
  \/ FormatNoContent(r)
  \/ \E resp \in LLMResponses : FormatTarget(r, resp)
  \/ FormatNodeExit(r)
  \/ \E outcome \in TwitterOutcomes : PublishTarget(r, outcome)
  \/ PublishNodeExit(r)
  \/ FinalizeResultsNode(r)
  \/ ProcessResult(r)
  \/ GetPublicationStatus(r)

\* The in-process driver with one request.
Next ==
  \/ \E r \in SoloIds, req \in EnhancedPublicationRequest : Submit(r, req)
  \/ \E r \in SoloIds : Pipeline(r)

Spec == Init /\ [][Next]_vars

\* The steps of a request that wait for no collaborator: the bookkeeping of
\* the nodes, the placeholder text returned when there is no model, a target
\* skipped for want of an account, and the fake success of a key other than
\* twitter_post.
WithoutModel(r) ==
  /\ ~llm_enabled
  /\ \E resp \in LLMResponses :
        GenerateContentNode(r, resp) \/ FormatTarget(r, resp)

FormatSkipped(r) ==
  /\ pc[r] = "format"
  /\ local[r].idx <= Len(request[r].platforms_config)
  /\ validate_account_exists(request[r].site_web,
        request[r].platforms_config[local[r].idx].platform) # "ok"
  /\ \E resp \in LLMResponses : FormatTarget(r, resp)

PublishSimulated(r) ==
  /\ pc[r] = "publish"
  /\ local[r].idx <= Len(wf[r].formatted_content)
  /\ wf[r].formatted_content[local[r].idx].key # << "twitter", "post" >>
  /\ PublishTarget(r, "created")

LocalStep(r) ==
  \/ Begin(r)
  \/ WithoutModel(r)
  \/ FormatNoContent(r)
  \/ FormatSkipped(r)
  \/ FormatNodeExit(r)
  \/ PublishSimulated(r)
  \/ PublishNodeExit(r)
  \/ FinalizeResultsNode(r)
  \/ ProcessResult(r)

\* The in-process driver with its scheduling: the event loop eventually runs
\* every step that waits for no collaborator.  llm.ainvoke and twitter.post
\* are awaited without a timeout, so nothing makes GenerateContentNode, the
\* formatting of an admitted target or the posting of a tweet happen when
\* the collaborator does not answer.
SpecFair == Spec /\ \A r \in SoloIds : WF_vars(LocalStep(r))

\* The steps of the background task of a request; a status query is not one
\* of them.
BackgroundStep(r) ==
  \/ Begin(r)
  \/ \E resp \in LLMResponses : GenerateContentNode(r, resp)
  \/ FormatNoContent(r)
  \/ \E resp \in LLMResponses : FormatTarget(r, resp)
  \/ FormatNodeExit(r)
  \/ \E outcome \in TwitterOutcomes : PublishTarget(r, outcome)
  \/ PublishNodeExit(r)
  \/ FinalizeResultsNode(r)
  \/ ProcessResult(r)

\* The in-process driver when every awaited call returns, with a result or
\* with an error: the event loop then resumes the background task after each
\* of its awaits.
SpecReturns == Spec /\ \A r \in SoloIds : WF_vars(BackgroundStep(r))

\* The in-process driver with one request of one carousel target.
PipelineCarousel(r) ==
  \/ Begin(r)
  \/ \E resp \in LLMResponses : GenerateContentNode(r, resp)
  \/ FormatNoContent(r)
  \/ \E resp \in CarouselResponses : FormatTarget(r, resp)
  \/ FormatNodeExit(r)
  \/ \E outcome \in TwitterOutcomes : PublishTarget(r, outcome)
  \/ PublishNodeExit(r)
  \/ FinalizeResultsNode(r)
  \/ ProcessResult(r)
  \/ GetPublicationStatus(r)

NextCarousel ==
  \/ \E r \in SoloIds, req \in CarouselRequests : Submit(r, req)
  \/ \E r \in SoloIds : PipelineCarousel(r)

SpecCarousel == Init /\ [][NextCarousel]_vars

\* Two requests in flight together, each with one target.
PairRequests ==
  { req \in EnhancedPublicationRequest :
      /\ Len(req.platforms_config) = 1
      /\ req.platforms_config[1].published }

NextPair ==
  \/ \E r \in ReqIds, req \in PairRequests : Submit(r, req)
  \/ \E r \in ReqIds : Pipeline(r)

SpecPair == Init /\ [][NextPair]_vars

\* The in-process driver with one request of one target.
NextOneTarget ==
  \/ \E r \in SoloIds, req \in PairRequests : Submit(r, req)
  \/ \E r \in SoloIds : Pipeline(r)

SpecOneTarget == Init /\ [][NextOneTarget]_vars

\* The distributed driver.
NextCelery ==
  \/ \E w \in WorkflowIds, req \in CeleryRequests, sent \in BOOLEAN :
        ExecuteWorkflowAsync(w, req, sent)
  \/ \E w \in WorkflowIds, ok \in BOOLEAN : RunUnit(w, ok)
  \/ \E w \in WorkflowIds, backend \in BOOLEAN, now \in QueryTimes :
        GetWorkflowStatus(w, backend, now)
  \/ \E w \in WorkflowIds, control \in BOOLEAN : CancelWorkflow(w, control)
  \/ \E w, new \in WorkflowIds, sent \in BOOLEAN : RetryWorkflow(w, new, sent)

SpecCelery == Init /\ [][NextCelery]_vars

\* The distributed driver with its scheduling: a worker eventually runs a
\* queued unit, and a status query that would change the entry is
\* eventually made.
SpecCeleryFair ==
  /\ SpecCelery
  /\ WF_vars(\E w \in WorkflowIds, ok \in BOOLEAN : RunUnit(w, ok))
  /\ WF_vars(\E w \in WorkflowIds, now \in QueryTimes :
                GetWorkflowStatus(w, TRUE, now))

\* Both drivers next to each other, as main.py imports them: one request of
\* one target in the in-process driver, one workflow in the distributed one.
StatusWorkflows == {1}

NextStatus ==
  \/ \E r \in SoloIds, req \in PairRequests : Submit(r, req)
  \/ \E r \in SoloIds : Pipeline(r)
  \/ \E w \in StatusWorkflows, req \in CeleryRequests, sent \in BOOLEAN :
        ExecuteWorkflowAsync(w, req, sent)
  \/ \E w \in StatusWorkflows, ok \in BOOLEAN : RunUnit(w, ok)
  \/ \E w \in StatusWorkflows, backend \in BOOLEAN, now \in QueryTimes :
        GetWorkflowStatus(w, backend, now)
  \/ \E w \in StatusWorkflows, control \in BOOLEAN : CancelWorkflow(w, control)

SpecStatus == Init /\ [][NextStatus]_vars

\* The workers and the task messages they receive.
NextUnits ==
  \/ \E task \in ClientTasks, req \in CeleryRequests : SendUnit(task, req)
  \/ \E i \in 1..(MaxMessages * (1 + MaxDeliveries)), outcome \in PublishTaskOutcomes :
        DeliverUnit(i, outcome)

SpecUnits == Init /\ [][NextUnits]_vars

\* The draft stores and endpoints, with the pipeline of the requests that
\* publish_draft registers.
NextDrafts ==
  \/ \E d \in DraftIds, site_web \in RequestSites, len \in DraftLens :
        CreateTwitterDraft(d, site_web, len)
  \/ \E d \in DraftIds, site_web \in RequestSites, ct \in DraftContentTypes,
        len \in DraftLens : CreateInstagramDraft(d, site_web, ct, len)
  \/ \E d \in DraftIds, r \in ReqIds, outcome \in FacebookOutcomes :
        PublishDraft(d, r, outcome)
  \/ \E d \in DraftIds : DeleteDraft(d)
  \/ \E r \in ReqIds : Pipeline(r)

SpecDrafts == Init /\ [][NextDrafts]_vars

\* The draft stores and endpoints alone: drafts are created for every site,
\* stored drafts are promoted, any id is deleted.
NextDraftStore ==
  \/ \E d \in DraftIds, site_web \in SiteWeb, len \in DraftLens :
        CreateTwitterDraft(d, site_web, len)
  \/ \E d \in DraftIds, site_web \in SiteWeb, ct \in DraftContentTypes,
        len \in DraftLens : CreateInstagramDraft(d, site_web, ct, len)
  \/ \E d \in DOMAIN twitter_drafts_store \cup DOMAIN instagram_drafts_store,
        r \in ReqIds : PublishDraft(d, r, "ok")
  \/ \E d \in DraftIds : DeleteDraft(d)

SpecDraftStore == Init /\ [][NextDraftStore]_vars

\* ------------------------------------------------------------------------
\* Properties of the in-process driver
\* ------------------------------------------------------------------------
Done(r) == r \in DOMAIN task_store /\ pc[r] = "done"

GenerationSucceeded(r) == wf[r].content_generated.len > 0

\* Indices of the targets whose account resolves.
Admitted(r) ==
  { i \in 1..Len(request[r].platforms_config) :
      validate_account_exists(request[r].site_web,
                              request[r].platforms_config[i].platform) = "ok" }

\* The entries of a dict or of an outcome list that belong to a target key.
ResultsFor(d, k) == { j \in 1..Len(d) : d[j].key = k }

OutcomesFor(r, k) ==
  { j \in 1..Len(task_store[r].platforms_results) :
      /\ task_store[r].platforms_results[j].platform = k[1]
      /\ task_store[r].platforms_results[j].content_type = k[2] }

HasDuplicateTargets(req) ==
  \E i, j \in 1..Len(req.platforms_config) :
     i # j /\ config_key(req.platforms_config[i]) = config_key(req.platforms_config[j])

\* C1: a finished request whose generation succeeded and that has at least
\* one successfully published target has status completed, whatever
\* happened to its other targets.
C1_PartialFailureIsCompleted ==
  \A r \in ReqIds :
    ( /\ Done(r)
      /\ GenerationSucceeded(r)
      /\ \E j \in 1..Len(wf[r].publication_results) :
            wf[r].publication_results[j].val.status = "success" )
    => task_store[r].status = "completed"

\* C2: a finished request with successful generation and at least one
\* admitted target lists exactly one outcome per admitted target.
C2_OneOutcomePerAdmittedTarget ==
  \A r \in ReqIds :
    (Done(r) /\ GenerationSucceeded(r) /\ Admitted(r) # {})
    => /\ Len(task_store[r].platforms_results) = Cardinality(Admitted(r))
       /\ \A i \in Admitted(r) :
            Cardinality(OutcomesFor(r, config_key(request[r].platforms_config[i]))) = 1

\* The two targets of r, a published with success and b with a failure.
PublishedSuccessAndFailure(r, a, b) ==
  /\ Len(request[r].platforms_config) = 2
  /\ a # b
  /\ \E j \in ResultsFor(wf[r].publication_results,
                         config_key(request[r].platforms_config[a])) :
        wf[r].publication_results[j].val.status = "success"
  /\ \E j \in ResultsFor(wf[r].publication_results,
                         config_key(request[r].platforms_config[b])) :
        wf[r].publication_results[j].val.status = "failed"

\* C3: a request with two targets, one published with success and the other
\* with a publication failure, ends completed with a success outcome for
\* the first and a failed outcome for the second.
C3_PartialPublishFailure ==
  \A r \in ReqIds : \A a, b \in 1..2 :
    (Done(r) /\ PublishedSuccessAndFailure(r, a, b))
    => /\ task_store[r].status = "completed"
       /\ \E j \in OutcomesFor(r, config_key(request[r].platforms_config[a])) :
            task_store[r].platforms_results[j].status = "completed"
       /\ \E j \in OutcomesFor(r, config_key(request[r].platforms_config[b])) :
            task_store[r].platforms_results[j].status = "failed"

C3_Witness ==
  \E r \in ReqIds : \E a, b \in 1..2 :
    Done(r) /\ PublishedSuccessAndFailure(r, a, b)

\* C4: when generation yields no content the request ends failed with an
\* empty outcome list.
C4_GenerationFailureIsTotal ==
  \A r \in ReqIds :
    (Done(r) /\ ~GenerationSucceeded(r))
    => /\ task_store[r].status = "failed"
       /\ task_store[r].platforms_results = << >>

C4_Witness ==
  \E r \in ReqIds :
    /\ Done(r) /\ ~GenerationSucceeded(r)
    /\ Len(request[r].platforms_config) > 0
    /\ wf[r].errors = << workflow_error("no_content", 0) >>

\* C6: no tweet is posted for a target whose configuration says
\* published = false.
C6_DraftTargetNeverPosted ==
  \A c \in twitter_api_calls :
    request[c.request_id].platforms_config[c.cfg].published

\* C7: a request with two targets of the same (platform, content_type) is
\* never processed: it stays out of the registry's processing states and no
\* stage runs for it.
C7_DuplicateTargetsRejected ==
  \A r \in ReqIds :
    HasDuplicateTargets(request[r])
    => /\ pc[r] \in {"none", "queued"}
       /\ (r \in DOMAIN task_store => task_store[r].status = "pending")

StatusOf(store, r) ==
  IF r \in DOMAIN store THEN store[r].status ELSE "unregistered"

\* C9: a request is registered as pending, and its status then only moves
\* pending -> processing -> completed or pending -> processing -> failed.
C9_StatusTransitions ==
  [][ \A r \in ReqIds :
        StatusOf(task_store, r) # StatusOf(task_store', r)
        => << StatusOf(task_store, r), StatusOf(task_store', r) >> \in
             { << "unregistered", "pending" >>,
               << "pending", "processing" >>,
               << "processing", "completed" >>,
               << "processing", "failed" >> } ]_vars

C9_Witness ==
  \E r \in ReqIds :
    /\ r \in DOMAIN task_store
    /\ task_store[r].status = "completed"
    /\ task_store[r].platforms_results # << >>


\* ------------------------------------------------------------------------
\* Properties of the registries and of the distributed driver
\* ------------------------------------------------------------------------
Terminal(status) == status \in {"completed", "failed"}

\* C5: an entry of either registry whose status is completed or failed is
\* never changed again: neither its status nor its outcomes.
C5_TerminalIsReadOnly ==
  [][ /\ \A r \in DOMAIN task_store :
           Terminal(task_store[r].status)
           => /\ r \in DOMAIN task_store'
              /\ task_store'[r].status = task_store[r].status
              /\ task_store'[r].platforms_results = task_store[r].platforms_results
      /\ \A w \in DOMAIN celery_store :
           Terminal(celery_store[w].status)
           => /\ w \in DOMAIN celery_store'
              /\ celery_store'[w].status = celery_store[w].status
              /\ celery_store'[w].results = celery_store[w].results ]_vars

C8_PromoteOnce ==
  \A i, j \in 1..Len(promote_log) :
    ( /\ i < j
      /\ promote_log[i].draft_id = promote_log[j].draft_id
      /\ promote_log[i].status = "published" )
    => /\ promote_log[j].status # "published"
       /\ ~promote_log[j].sent


\* ------------------------------------------------------------------------
\* Ordering and independence of the targets in the in-process driver
\* ------------------------------------------------------------------------
FormatCall(r, i) == [request_id |-> r, cfg |-> i]

\* The site of request r has an active account on the platform of target i.
HasActiveAccount(r, i) ==
  \E a \in account_mapping :
     /\ a.site_web = request[r].site_web
     /\ a.platform = request[r].platforms_config[i].platform
     /\ a.is_active

\* Every target of r has been through the formatting loop: its format
\* operation has returned, or it was skipped for want of an account.
AllFormatsResolved(r) ==
  /\ wf[r].current_step = "content_formatted"
  /\ \A i \in 1..Len(request[r].platforms_config) :
        FormatCall(r, i) \in format_calls \/ ~HasActiveAccount(r, i)

\* C14: a format operation of a request starts only once its generation has
\* returned, and a publish operation starts only once every format
\* operation of the request has resolved.
C14_StageBarrier ==
  [][ \A r \in ReqIds :
        /\ (\E c \in format_calls' \ format_calls : c.request_id = r)
           => wf[r].current_step = "content_generated"
        /\ (pc[r] = "publish" /\ pc'[r] = "publish" /\ local'[r] # local[r])
           => AllFormatsResolved(r) ]_vars

\* Two targets formatted, the first one published.
C14_Witness ==
  \E r \in ReqIds :
    /\ pc[r] = "publish"
    /\ local[r].idx = 2
    /\ Len(wf[r].formatted_content) = 2
    /\ {FormatCall(r, 1), FormatCall(r, 2)} \subseteq format_calls

\* C19: in a finished request whose generation succeeded, every target with
\* an account has been handed to its format operation, and every target
\* that was formatted has its outcome in the registry, whatever happened to
\* the other targets.
C19_SiblingsKeepOutcome ==
  \A r \in ReqIds :
    (Done(r) /\ GenerationSucceeded(r))
    => /\ \A i \in 1..Len(request[r].platforms_config) :
            HasActiveAccount(r, i) => FormatCall(r, i) \in format_calls
       /\ \A j \in 1..Len(wf[r].formatted_content) :
            OutcomesFor(r, wf[r].formatted_content[j].key) # {}

\* C20: every target handed to a format operation has an active account on
\* its platform for the site of its request.
C20_NoFormatWithoutAccount ==
  \A c \in format_calls : HasActiveAccount(c.request_id, c.cfg)

\* A target without account was skipped and its sibling formatted.
C20_Witness ==
  \E r \in ReqIds : \E i, j \in 1..Len(request[r].platforms_config) :
    /\ pc[r] = "publish"
    /\ ~HasActiveAccount(r, i)
    /\ FormatCall(r, i) \notin format_calls
    /\ FormatCall(r, j) \in format_calls


\* ------------------------------------------------------------------------
\* Isolation of concurrent requests
\* ------------------------------------------------------------------------
\* The step changes something kept for request r: its registry entry, its
\* workflow state, or the position of its background task.
Touched(r) ==
  \/ (r \in DOMAIN task_store) # (r \in DOMAIN task_store')
  \/ r \in DOMAIN task_store /\ r \in DOMAIN task_store'
       /\ task_store'[r] # task_store[r]
  \/ wf'[r] # wf[r]
  \/ local'[r] # local[r]
  \/ pc'[r] # pc[r]
  \/ request'[r] # request[r]

\* The finished entry of r in the next state reports the results of r's own
\* workflow and nothing else.
OwnOutcomes(r) ==
  (r \in DOMAIN task_store' /\ pc'[r] = "done")
  => LET entry == task_store'[r]
         own == wf'[r].publication_results
     IN /\ (entry.status = "completed") = (wf'[r].current_step = "completed")
        /\ \A j \in 1..Len(entry.platforms_results) :
             /\ entry.platforms_results[j].task_id[1] = r
             /\ j <= Len(own)
             /\ own[j].key = << entry.platforms_results[j].platform,
                                entry.platforms_results[j].content_type >>
             /\ (entry.platforms_results[j].status = "completed")
                  = (own[j].val.status = "success")
             /\ \E i \in 1..Len(request'[r].platforms_config) :
                  config_key(request'[r].platforms_config[i]) = own[j].key

\* C18: with two requests in flight, a step changes what is kept for at most
\* one of them, and the finished entry of a request reports its own targets
\* and results.
C18_Isolation ==
  [][ /\ \A r1, r2 \in ReqIds : r1 # r2 => ~(Touched(r1) /\ Touched(r2))
      /\ \A r \in ReqIds : OwnOutcomes(r) ]_vars

\* Both requests finished, one completed and the other failed.
C18_Witness ==
  \E r1, r2 \in ReqIds :
    /\ Done(r1) /\ Done(r2)
    /\ task_store[r1].status = "completed"
    /\ task_store[r1].platforms_results # << >>
    /\ task_store[r2].status = "failed"


C15_CancelStopsUnstartedUnits ==
  [][ \A w \in revoked : \A u \in DOMAIN units[w] :
        units[w][u] \in {"unsent", "queued"}
        => units'[w][u] \in {"unsent", "queued", "REVOKED"} ]_vars

\* C16: a workflow registered by retry_workflow retries an entry whose
\* status is failed or cancelled, is stored under an id that was free, holds
\* the request stored in the original, and every entry already in the
\* registry, the original included, is left as it was.
C16_RetryIsNewWorkflow ==
  [][ \A v \in WorkflowIds :
        retry_of'[v] # retry_of[v]
        => LET w == retry_of'[v] IN
           /\ w \in DOMAIN celery_store
           /\ celery_store[w].status \in {"failed", "cancelled"}
           /\ v \notin DOMAIN celery_store
           /\ DOMAIN celery_store' = DOMAIN celery_store \cup {v}
           /\ celery_store'[v].request = celery_store[w].request
           /\ \A x \in DOMAIN celery_store : celery_store'[x] = celery_store[x] ]_vars

\* A cancelled workflow and the workflow that retries it.
C16_Witness ==
  \E v \in DOMAIN celery_store :
    /\ retry_of[v] \in DOMAIN celery_store
    /\ celery_store[retry_of[v]].status = "cancelled"
    /\ celery_store[v].status = "processing"
    /\ celery_store[v].request = celery_store[retry_of[v]].request


\* C17: however often a task message is delivered, its handler has
\* submitted no more than one unit per target and made no more than one
\* publication.
C17_DuplicateDeliveryIsIdempotent ==
  \A i \in 1..Len(broker) :
    /\ Cardinality({j \in 1..Len(broker) : broker[j].parent = i})
         <= Len(broker[i].targets)
    /\ broker[i].effects <= 1


\* ------------------------------------------------------------------------
\* Reporting of target failures in the in-process driver
\* ------------------------------------------------------------------------
\* C21: in a finished request, every target that failed account resolution
\* or formatting has a failed outcome of its own in the registry entry.
C21_FailedTargetHasOutcome ==
  \A r \in ReqIds :
    Done(r)
    => \A k \in 1..Len(wf[r].errors) :
         wf[r].errors[k].kind \in {"account", "format"}
         => \E j \in OutcomesFor(r,
                   config_key(request[r].platforms_config[wf[r].errors[k].cfg])) :
               task_store[r].platforms_results[j].status = "failed"

\* The generation call of r failed: the model is unavailable (placeholder
\* text) or its call raised (fallback text).
GenerationCallFailed(r) ==
  wf[r].content_generated.src \in {"placeholder", "fallback"}

\* C22: when the generation call of a request fails, no target of the
\* request is formatted or published and the request ends failed.
C22_GenerationCallFailureIsFatal ==
  \A r \in ReqIds :
    GenerationCallFailed(r)
    => /\ \A c \in format_calls : c.request_id # r
       /\ \A c \in twitter_api_calls : c.request_id # r
       /\ wf[r].publication_results = << >>
       /\ Done(r) => task_store[r].status = "failed"

\* ------------------------------------------------------------------------
\* Results of the in-process publish stage
\* ------------------------------------------------------------------------
\* The keys of the first n entries of a dict.
KeysUpTo(d, n) == { d[j].key : j \in 1..Min(n, Len(d)) }

\* Every key of d has one entry, whose status is success or failed.
OneResultPerKey(d) ==
  /\ \A i, j \in 1..Len(d) : d[i].key = d[j].key => i = j
  /\ \A j \in 1..Len(d) : d[j].val.status \in {"success", "failed"}

\* C23: during the publish stage every formatted target already handled has
\* exactly one result, success or failed, a failed publication included;
\* after the stage the targets with a result are the formatted targets.
C23_OneResultPerFormattedTarget ==
  \A r \in ReqIds :
    /\ pc[r] = "publish"
        => /\ DictKeys(local[r].dict) =
                KeysUpTo(wf[r].formatted_content, local[r].idx - 1)
           /\ OneResultPerKey(local[r].dict)
    /\ pc[r] \in {"finalize", "returned", "done"}
        => /\ DictKeys(wf[r].publication_results) = DictKeys(wf[r].formatted_content)
           /\ OneResultPerKey(wf[r].publication_results)

\* The publish stage is over for two formatted targets, one published and
\* the other with a failed publication.
C23_Witness ==
  \E r \in ReqIds :
    /\ pc[r] = "finalize"
    /\ Len(wf[r].formatted_content) = 2
    /\ \E i, j \in 1..Len(wf[r].publication_results) :
          /\ wf[r].publication_results[i].val.status = "failed"
          /\ wf[r].publication_results[j].val.status = "success"

\* ------------------------------------------------------------------------
\* Status queries
\* ------------------------------------------------------------------------
\* The step is no activity of the pipeline of request r.
NoPipelineActivity(r) ==
  pc'[r] = pc[r] /\ wf'[r] = wf[r] /\ local'[r] = local[r]

LocalDraftIds == { d \in DraftIds : draft_platform(d) # "facebook" }

\* The two stores after delete_draft(d).
StoresAfterDelete(d) ==
  [ twitter |-> IF draft_platform(d) = "twitter"
                THEN delete_twitter_draft(twitter_drafts_store, d).store
                ELSE twitter_drafts_store,
    instagram |-> IF draft_platform(d) = "instagram"
                  THEN delete_instagram_draft(instagram_drafts_store, d).store
                  ELSE instagram_drafts_store ]

\* The store of d in a pair of stores.
StoreOf(stores, d) ==
  CASE draft_platform(d) = "twitter" -> stores.twitter
    [] draft_platform(d) = "instagram" -> stores.instagram
    [] OTHER -> << >>

DraftPrefixes == {"twitter_draft", "instagram_draft"}

\* C26: in a completed request, the successful outcome of a target submitted
\* with published = false carries the id of a draft held in a draft store.
C26_DraftOutcomeIsStaged ==
  \A r \in ReqIds :
    (Done(r) /\ task_store[r].status = "completed")
    => \A i \in 1..Len(request[r].platforms_config) :
         ~request[r].platforms_config[i].published
         => \A j \in OutcomesFor(r, config_key(request[r].platforms_config[i])) :
              task_store[r].platforms_results[j].status = "completed"
              => /\ task_store[r].platforms_results[j].post_id \in DraftPrefixes
                 /\ \E d \in DOMAIN twitter_drafts_store
                              \cup DOMAIN instagram_drafts_store :
                       d.prefix = task_store[r].platforms_results[j].post_id

\* ------------------------------------------------------------------------
\* The two drivers on the same request
\* ------------------------------------------------------------------------
\* Workflow w has run as far as it goes: its chain was sent, no unit is
\* queued, and a status query would leave its entry as it is.
AtRest(w) ==
  /\ units[w].generation # "unsent"
  /\ \A u \in DOMAIN units[w] : units[w][u] # "queued"
  /\ \A now \in QueryTimes :
        workflow_status(celery_store[w], AsyncResultState(w), TRUE, now)
          = celery_store[w]

\* Nothing outside the pipeline went wrong for workflow w: the chain was
\* sent, no worker was lost, the result backend answered, nobody cancelled.
NoFault(w) ==
  /\ celery_store[w].celery_task_id
  /\ celery_store[w].error = "none"
  /\ celery_store[w].status # "cancelled"
  /\ w \notin revoked
  /\ units[w].generation = "SUCCESS"

\* C27: when the in-process driver has finished a request and the
\* distributed driver, given the same request and meeting no fault, has run
\* as far as it goes, both report the same final status, and the
\* distributed driver has formatted exactly when the in-process one has.
C27_DriversAgree ==
  \A r \in DOMAIN task_store : \A w \in DOMAIN celery_store :
    ( /\ Done(r)
      /\ request[r] = parse_obj(celery_store[w].request)
      /\ AtRest(w)
      /\ NoFault(w) )
    => /\ celery_store[w].status = task_store[r].status
       /\ (units[w].formatting = "SUCCESS")
            = (\E c \in format_calls : c.request_id = r)

\* ------------------------------------------------------------------------
\* Bounded waits
\* ------------------------------------------------------------------------
\* C28: every registered request eventually reaches a terminal status, even
\* when a collaborator never answers.
C28_RequestTerminates ==
  \A r \in SoloIds :
    (r \in DOMAIN task_store)
      ~> (r \in DOMAIN task_store /\ Terminal(task_store[r].status))

\* ------------------------------------------------------------------------
\* Carousel targets
\* ------------------------------------------------------------------------
\* C29: formatting a carousel target never fails, whatever the model
\* answers and whatever nb_slides the target configuration holds: no
\* formatting error is recorded for a carousel target.
C29_CarouselFallbackNeverRaises ==
  \A r \in ReqIds : \A k \in 1..Len(wf[r].errors) :
    wf[r].errors[k].kind = "format"
    => request[r].platforms_config[wf[r].errors[k].cfg].content_type # "carousel"

\* ------------------------------------------------------------------------
\* Length ceilings of the formatted payloads
\* ------------------------------------------------------------------------
\* The payloads the format stage holds for request r: those of the running
\* loop and those it stored in the workflow state.
StoredPayloads(r) ==
  { wf[r].formatted_content[j].val : j \in 1..Len(wf[r].formatted_content) }
    \cup (IF pc[r] = "format"
          THEN { local[r].dict[j].val : j \in 1..Len(local[r].dict) }
          ELSE {})

\* C30: a stored Twitter post has at most 280 characters and a stored
\* Instagram story at most 50, whatever length the model returned.
C30_LengthCeilings ==
  \A r \in ReqIds : \A payload \in StoredPayloads(r) :
    /\ payload.model = "TwitterPostOutput" => payload.len <= 280
    /\ payload.model = "InstagramStoryOutput" => payload.len <= 50

\* The model returned over-long texts: the tweet was refused and the story
\* is stored cut to 50 characters.
C30_Witness ==
  \E r \in ReqIds :
    /\ \E payload \in StoredPayloads(r) :
          payload.model = "InstagramStoryOutput" /\ payload.len = 50
    /\ \E k \in 1..Len(wf[r].errors) :
          /\ wf[r].errors[k].kind = "format"
          /\ request[r].platforms_config[wf[r].errors[k].cfg].platform = "twitter"

\* The carousel payloads the format stage holds for request r.
CarouselPayloads(r) ==
  { p \in StoredPayloads(r) : p.model = "InstagramCarouselOutput" }

C32_AccountValidation ==
  /\ \A m \in AccountMappings, s \in RequestSites, p \in PlatformType :
        (validate_account(m, s, p) = "ok")
          = (\E a \in m : a.site_web = s /\ a.platform = p /\ a.is_active)
  /\ \A s \in SiteWeb, p \in PlatformType :
        IF p = "linkedin"
        THEN validate_account_exists(s, p) = "missing"
        ELSE /\ validate_account_exists(s, p) = "ok"
             /\ get_account(s, p) =
                  {[site_web |-> s, platform |-> p, is_active |-> TRUE]}
  /\ \A r \in ReqIds : \A k \in 1..Len(wf[r].errors) :
        wf[r].errors[k].kind = "account" => ~HasActiveAccount(r, wf[r].errors[k].cfg)

\* A finished request whose LinkedIn target was refused for want of an
\* account.
C32_Witness ==
  \E r \in ReqIds :
    /\ Done(r)
    /\ request[r].platforms_config[1].platform = "linkedin"
    /\ wf[r].errors = << workflow_error("account", 1) >>

\* ------------------------------------------------------------------------
\* Termination when every call returns
\* ------------------------------------------------------------------------
\* C33: when every external call returns, with a result or with an error,
\* every registered request eventually has status completed or failed; a
\* failure recorded in a stage does not leave it pending or processing.
C33_ReturnsImplyTerminal ==
  \A r \in SoloIds :
    (r \in DOMAIN task_store /\ task_store[r].status \in {"pending", "processing"})
      ~> (r \in DOMAIN task_store /\ Terminal(task_store[r].status)
            /\ pc[r] = "done")

\* A request that ended failed after a stage recorded an error.
C33_Witness ==
  \E r \in SoloIds :
    /\ Done(r)
    /\ task_store[r].status = "failed"
    /\ Len(wf[r].errors) > 0

\* ------------------------------------------------------------------------
\* What a status query can observe
\* ------------------------------------------------------------------------
\* C34: in every state a status query can observe, completed_at is set
\* exactly when the status is completed or failed, and an entry shown as
\* completed holds its outcome list, one outcome per publication result and
\* at least one.
C34_ObservedEntryIsConsistent ==
  \A r \in DOMAIN task_store :
    /\ task_store[r].completed_at = Terminal(task_store[r].status)
    /\ task_store[r].status = "completed"
         => /\ Len(task_store[r].platforms_results) > 0
            /\ Len(task_store[r].platforms_results)
                 = Len(wf[r].publication_results)
    /\ ~Terminal(task_store[r].status)
         => task_store[r].platforms_results = << >>

\* A completed request of two targets, with both outcomes in its list.
C34_Witness ==
  \E r \in SoloIds :
    /\ Done(r)
    /\ task_store[r].status = "completed"
    /\ task_store[r].completed_at
    /\ Len(task_store[r].platforms_results) = 2

\* ------------------------------------------------------------------------
\* Faults of the result backend
\* ------------------------------------------------------------------------
\* C35: a workflow is recorded failed only if its submission failed or one
\* of its units failed; a status query whose read of the result backend
\* raises does not mark a running workflow failed.
C35_FailedOnlyOnFailure ==
  \A w \in DOMAIN celery_store :
    celery_store[w].status = "failed"
      => \/ ~celery_store[w].celery_task_id
         \/ \E u \in DOMAIN units[w] : units[w][u] = "FAILURE"

\* ------------------------------------------------------------------------
\* Retry after a failure of the chain
\* ------------------------------------------------------------------------
\* C36: a workflow whose chain ended in failure can be retried, whether or
\* not a status query was made after the failure: retry_workflow accepts it.
C36_FailedChainCanBeRetried ==
  \A w \in DOMAIN celery_store :
    (celery_store[w].celery_task_id
       /\ \E u \in DOMAIN units[w] : units[w][u] = "FAILURE")
      => CanRetry(celery_store[w])

\* ------------------------------------------------------------------------
\* Status of a cancelled workflow
\* ------------------------------------------------------------------------
\* C37: once cancel_workflow has returned true for a workflow, its entry
\* reads cancelled and every status query reports it cancelled, whatever its
\* units have done since and whatever state of the chain or error the
\* result backend answers.
C37_CancelledStaysCancelled ==
  \A w \in revoked :
    /\ celery_store[w].status = "cancelled"
    /\ \A state \in AsyncResultStates, backend \in BOOLEAN, now \in QueryTimes :
          workflow_status(celery_store[w], state, backend, now).status
            = "cancelled"

\* A cancelled workflow whose generation and formatting units have run.
C37_Witness ==
  \E w \in revoked :
    /\ units[w].generation = "SUCCESS"
    /\ units[w].formatting = "FAILURE"
    /\ celery_store[w].status = "cancelled"

\* ------------------------------------------------------------------------
\* The text of a promoted draft
\* ------------------------------------------------------------------------
\* C38: the text that reaches the publish step of a request registered by
\* publish_draft is the content stored in the draft, not a text generated
\* anew: every payload handed to the publish step carries the draft's text.
C38_PromotePublishesStagedText ==
  \A r \in DOMAIN task_store :
    pc[r] \in {"publish", "finalize", "returned", "done"}
      => \A j \in 1..Len(wf[r].formatted_content) :
            wf[r].formatted_content[j].val.src = "draft"

\* ------------------------------------------------------------------------
\* When a promoted draft leaves the store
\* ------------------------------------------------------------------------
\* C39: publish_draft removes a Twitter or Instagram draft from its store
\* only after the publication of the request it registered has succeeded:
\* in the step where a promotion removes a draft, a request built from that
\* draft is completed.
C39_DraftRemovedAfterPublication ==
  [][ \A d \in TwitterIds \cup InstagramIds :
        ( /\ d \in DOMAIN draft_store(d)
          /\ d \notin DOMAIN draft_store(d)'
          /\ Len(promote_log') > Len(promote_log) )
        => \E r \in DOMAIN task_store' :
              /\ request'[r] = draft_request(draft_platform(d), draft_store(d)[d])
              /\ task_store'[r].status = "completed" ]_vars

\* ------------------------------------------------------------------------
\* Identifiers of the outcomes
\* ------------------------------------------------------------------------
\* C40: in the outcome list of a request whose targets have pairwise
\* distinct (platform, content_type), no two outcomes have the same task_id.
C40_DistinctTaskIds ==
  \A r \in DOMAIN task_store :
    ~HasDuplicateTargets(request[r])
      => \A i, j \in 1..Len(task_store[r].platforms_results) :
            i # j => task_store[r].platforms_results[i].task_id
                       # task_store[r].platforms_results[j].task_id

====
